---- MODULE Spec2Model ----
(***************************************************************************)
(* NetworkTrainer (src/trainer/trainer.py): the step counter, the          *)
(* checkpoint directory kept by tf.train.Saver, and the operations         *)
(* train_step, train, save_state and load_state.                           *)
(*                                                                         *)
(* Trainable parameters are opaque to the trainer.  A parameter value is   *)
(* modelled by its lineage: the sequence of the identifiers of the updates *)
(* that produced it, every update getting a fresh identifier.  Two         *)
(* parameter values are equal exactly when they went through the same      *)
(* updates.                                                                *)
(***************************************************************************)
EXTENDS Integers, Sequences, FiniteSets, TLC

\* ---------------------------------------------------------------- bounds
MaxUpdates == 3         \* optimizer updates applied in one behaviour
MaxSaveStep == 2        \* save_step is None or in 1..MaxSaveStep
MaxKeep == 2            \* max_checkpoints is in 1..MaxKeep
MaxTrain == 2           \* train(n) is called with n in 0..MaxTrain
MaxExplicitSaves == 2   \* successful save_state calls made by the caller
MaxLoads == 2           \* successful load_state calls
MaxFeedValue == 2       \* largest value a caller feeds to an input placeholder
MaxIndex == 10          \* largest suffix of a run directory that exists beforehand
MaxValInterval == 2     \* largest val_interval (val_log_frequency) of an experiment
MaxExpCalls == 2        \* calls of train made on one experiment
MaxCkptStep == 2        \* largest one-digit step with a checkpoint in the directory
MaxCheckpoints == 3     \* checkpoints whose performances are compared
MaxMean == 2            \* largest mean of a metric (means are 0..MaxMean or NaN)

\* Python's None and a present value.
None == <<>>
Some(v) == <<v>>

VARIABLES
    save_step,          \* self.save_step: None or Some(k)
    max_to_keep,        \* max_checkpoints, held by the Saver
    num_steps,          \* self.num_steps
    params,             \* the session's trainable parameters
    num_updates,        \* updates the session has applied (source of fresh ids)
    ckpt_files,         \* log_dir/checkpoint-<step>: step -> saved parameters
    last_checkpoints,   \* the Saver's list of the checkpoints it retains
    log_dir_exists,     \* log_dir/<name>/checkpoints is a directory
    latest_step_json,   \* content of log_dir/latest_step.json, None if absent
    lastCall,           \* the last call made on the trainer and its outcome
    hist,               \* history of the run (bookkeeping for the properties)
    feed,               \* the feed_dict of the last train_step and what run received
    naming,             \* the log directory and the run name resolved in it
    experiment,         \* the orchestrator: its settings and its last train call
    listing,            \* a checkpoint directory and the iterations read from it
    selection,          \* performances of checkpoints and the best one found
    confusion,          \* one example scored by the binary evaluator
    tester,             \* the last test_model or validation pass and its outcome
    cli,                \* one run of the store_outputs command line
    registry            \* orchestrators constructed over one log directory

trainer_vars == <<save_step, max_to_keep, num_steps, params, num_updates,
                  ckpt_files, last_checkpoints, log_dir_exists,
                  latest_step_json, lastCall, hist>>

\* State of the parts of the program other than the trainer's own fields.
side_vars == <<feed, naming, experiment, listing, selection,
               confusion, tester, cli, registry>>

vars == <<trainer_vars, side_vars>>

\* Outcomes an environment fault can force on one train_step: the update
\* (session.run) raises, or the checkpoint write (Saver.save) raises.
Faults == {"none", "run", "save"}

\* ------------------------------------------------------- sequence helpers
Range(s) == {s[i] : i \in 1..Len(s)}

RemoveAll(s, x) == SelectSeq(s, LAMBDA y : y # x)

CountEv(trace, e) == Cardinality({i \in 1..Len(trace) : trace[i].ev = e})

\* One event of a call's trace: what happened, the step number it bears, and
\* the parameters at that moment (None where they play no part).
EvP(e, n, p) == [ev |-> e, n |-> n, p |-> p]
Ev(e, n) == EvP(e, n, None)

\* ------------------------------------------------------------ the trainer
\* The mutable state the operations act on, as one record.
Cur == [num_steps |-> num_steps, params |-> params, num_updates |-> num_updates,
        ckpt_files |-> ckpt_files, last_checkpoints |-> last_checkpoints,
        log_dir_exists |-> log_dir_exists]

\* A call's outcome: the state it leaves, the exception it raised ("" if it
\* returned), what it returned, and the events it went through in order.
Outcome(t, raised, ret, trace) ==
    [t |-> t, raised |-> raised, ret |-> ret, trace |-> trace]

should_save_positive(n) ==
    IF save_step = None THEN FALSE ELSE n > 0 /\ n % save_step[1] = 0

should_save_always(n) == save_step # None

should_save_late(n) ==
    IF save_step = None THEN FALSE ELSE n % (save_step[1] + 1) = 0

should_save(n) ==
    IF save_step = None THEN FALSE ELSE n % save_step[1] = 0

Saver_save_keep_all(t) ==
    [t EXCEPT !.ckpt_files = [s \in DOMAIN t.ckpt_files \cup {t.num_steps} |->
                                 IF s = t.num_steps THEN t.params
                                 ELSE t.ckpt_files[s]],
              !.last_checkpoints = Append(t.last_checkpoints, t.num_steps)]

\* tf.train.Saver.save(session, log_dir/'checkpoint', global_step=num_steps):
\* writes checkpoint-<num_steps>, moves that path to the end of the list of
\* retained checkpoints, and deletes the oldest once the list is longer than
\* max_to_keep.
Saver_save(t) ==
    LET path == t.num_steps
        listed == Append(RemoveAll(t.last_checkpoints, path), path)
        evict == Len(listed) > max_to_keep
        kept == IF evict THEN Tail(listed) ELSE listed
        written == [s \in DOMAIN t.ckpt_files \cup {path} |->
                       IF s = path THEN t.params ELSE t.ckpt_files[s]]
    IN  [t EXCEPT !.ckpt_files = [s \in DOMAIN written \ (IF evict THEN {Head(listed)} ELSE {})
                                     |-> written[s]],
                  !.last_checkpoints = kept]

\* save_state(session); fails is the environment making the write raise.
save_state(t, fails) ==
    IF fails
    THEN Outcome(t, "SaveError", None, <<Ev("save_raise", t.num_steps)>>)
    ELSE Outcome(Saver_save([t EXCEPT !.log_dir_exists = TRUE]), "", None,
                 <<EvP("save", t.num_steps, t.params)>>)

\* session.run([self._train_step] + additional_ops): one optimizer update;
\* the auxiliary output of the pass is identified by the update's id.
session_run(t) ==
    [t EXCEPT !.num_updates = @ + 1, !.params = Append(@, t.num_updates + 1)]

train_step_count_first(t, fault) ==
    LET inc == [t EXCEPT !.num_steps = @ + 1]
    IN  IF fault = "run"
        THEN Outcome(inc, "RunError", None,
                     <<Ev("inc", inc.num_steps), Ev("run_raise", t.num_steps)>>)
        ELSE LET ran == session_run(inc)
                 pre == <<Ev("inc", inc.num_steps), EvP("run", t.num_steps, ran.params)>>
                 saved == IF should_save(ran.num_steps)
                          THEN save_state(ran, fault = "save")
                          ELSE Outcome(ran, "", None, <<>>)
             IN  IF saved.raised # ""
                 THEN Outcome(saved.t, saved.raised, None, pre \o saved.trace)
                 ELSE Outcome(saved.t, "", <<ran.num_updates, saved.t.num_steps>>,
                              pre \o saved.trace \o <<Ev("ret", saved.t.num_steps)>>)

train_step_save_before_update(t, fault) ==
    LET inc == [t EXCEPT !.num_steps = @ + 1]
        saved == IF should_save(inc.num_steps)
                 THEN save_state(inc, fault = "save")
                 ELSE Outcome(inc, "", None, <<>>)
        pre == <<Ev("inc", inc.num_steps)>> \o saved.trace
    IN  IF saved.raised # "" THEN Outcome(saved.t, saved.raised, None, pre)
        ELSE IF fault = "run"
        THEN Outcome(saved.t, "RunError", None, pre \o <<Ev("run_raise", t.num_steps)>>)
        ELSE LET ran == session_run(saved.t)
             IN  Outcome(ran, "", <<ran.num_updates, ran.num_steps>>,
                         pre \o <<EvP("run", t.num_steps, ran.params),
                                  Ev("ret", ran.num_steps)>>)

train_step_save_first(t, fault) ==
    IF fault = "run"
    THEN Outcome(t, "RunError", None, <<Ev("run_raise", t.num_steps)>>)
    ELSE LET ran == session_run(t)
             saved == IF should_save(ran.num_steps + 1)
                      THEN save_state(ran, fault = "save")
                      ELSE Outcome(ran, "", None, <<>>)
             inc == [saved.t EXCEPT !.num_steps = @ + 1]
             pre == <<EvP("run", t.num_steps, ran.params)>> \o saved.trace
         IN  IF saved.raised # ""
             THEN Outcome(saved.t, saved.raised, None, pre)
             ELSE Outcome(inc, "", <<ran.num_updates, inc.num_steps>>,
                          pre \o <<Ev("inc", inc.num_steps), Ev("ret", inc.num_steps)>>)

\* train_step(session): returns (output, num_steps).  Events: run (the update
\* was applied), inc (the counter was incremented), save / save_raise (from
\* save_state), ret (the call returned).
train_step(t, fault) ==
    IF fault = "run"
    THEN Outcome(t, "RunError", None, <<Ev("run_raise", t.num_steps)>>)
    ELSE LET ran == session_run(t)
             output == ran.num_updates
             inc == [ran EXCEPT !.num_steps = @ + 1]
             pre == <<EvP("run", t.num_steps, ran.params), Ev("inc", inc.num_steps)>>
             saved == IF should_save(inc.num_steps)
                      THEN save_state(inc, fault = "save")
                      ELSE Outcome(inc, "", None, <<>>)
         IN  IF saved.raised # ""
             THEN Outcome(saved.t, saved.raised, None, pre \o saved.trace)
             ELSE Outcome(saved.t, "", <<output, saved.t.num_steps>>,
                          pre \o saved.trace \o <<Ev("ret", saved.t.num_steps)>>)

arange_short(a, b) == [k \in 1..(b - a - 1) |-> a + k - 1]

\* numpy.arange(a, b): the integers a, a+1, ..., b-1.
arange(a, b) == [k \in 1..(b - a) |-> a + k - 1]

\* The loop of train: the i-th pass calls train_step and stores its output in
\* output[i]; an exception leaves the loop at once.  acc holds the state, the
\* output list, the trace so far and the exception raised.  faultAt names the
\* pass (0 for none) on which the environment forces fault faultKind.
RECURSIVE train_loop(_, _, _, _, _)
train_loop(acc, i, n, faultAt, faultKind) ==
    IF i > n \/ acc.raised # "" THEN acc
    ELSE LET r == train_step(acc.t, IF i = faultAt THEN faultKind ELSE "none")
         IN  train_loop([t |-> r.t,
                         output |-> IF r.raised = "" THEN [acc.output EXCEPT ![i] = r.ret[1]]
                                    ELSE acc.output,
                         trace |-> acc.trace \o r.trace,
                         raised |-> r.raised],
                        i + 1, n, faultAt, faultKind)

train_one_short(t, n, faultAt, faultKind) ==
    LET m == IF n > 0 THEN n - 1 ELSE 0
        done == train_loop([t |-> t, output |-> [k \in 1..n |-> None], trace |-> <<>>,
                            raised |-> ""], 1, m, faultAt, faultKind)
    IN  Outcome(done.t, done.raised,
                IF done.raised = "" THEN <<done.output, arange(t.num_steps, t.num_steps + n + 1)>>
                ELSE None, done.trace)

\* train(session, n): returns (output, iterations).
train(t, n, faultAt, faultKind) ==
    LET output == [k \in 1..n |-> None]
        iterations == arange(t.num_steps, t.num_steps + n + 1)
        done == train_loop([t |-> t, output |-> output, trace |-> <<>>, raised |-> ""],
                           1, n, faultAt, faultKind)
    IN  Outcome(done.t, done.raised,
                IF done.raised = "" THEN <<done.output, iterations>> ELSE None,
                done.trace)

\* json.load(f) where f is the pathlib.Path that `with path as f` binds: a Path
\* has no read(), so the call raises whatever the directory holds (on Pythons
\* where Path is no context manager the with statement itself raises).
json_load_path(content) == [raised |-> "AttributeError", value |-> None]

load_state_assign_first(t, step_num) ==
    IF step_num = None
    THEN Outcome(t, "AttributeError", None, <<Ev("load_raise", t.num_steps)>>)
    ELSE IF step_num[1] \notin DOMAIN t.ckpt_files
         THEN Outcome([t EXCEPT !.num_steps = step_num[1]], "NotFoundError", None,
                      <<Ev("restore_raise", step_num[1])>>)
         ELSE Outcome([t EXCEPT !.params = t.ckpt_files[step_num[1]],
                                !.num_steps = step_num[1]],
                      "", None, <<Ev("restore", step_num[1])>>)

load_state_keep_counter(t, step_num) ==
    IF step_num = None
    THEN Outcome(t, "AttributeError", None, <<Ev("load_raise", t.num_steps)>>)
    ELSE IF step_num[1] \notin DOMAIN t.ckpt_files
         THEN Outcome(t, "NotFoundError", None, <<Ev("restore_raise", step_num[1])>>)
         ELSE Outcome([t EXCEPT !.params = t.ckpt_files[step_num[1]]],
                      "", None, <<Ev("restore", step_num[1])>>)

load_state_no_restore(t, step_num) ==
    IF step_num = None
    THEN Outcome(t, "AttributeError", None, <<Ev("load_raise", t.num_steps)>>)
    ELSE IF step_num[1] \notin DOMAIN t.ckpt_files
         THEN Outcome(t, "NotFoundError", None, <<Ev("restore_raise", step_num[1])>>)
         ELSE Outcome([t EXCEPT !.num_steps = step_num[1]],
                      "", None, <<Ev("restore", step_num[1])>>)

\* load_state(session, step_num): Saver.restore raises when checkpoint-<step>
\* is not on disk, before the counter is assigned.
load_state(t, step_num) ==
    LET read == IF step_num = None THEN json_load_path(latest_step_json)
                ELSE [raised |-> "", value |-> step_num]
    IN  IF read.raised # ""
        THEN Outcome(t, read.raised, None, <<Ev("load_raise", t.num_steps)>>)
        ELSE LET step == read.value[1]
             IN  IF step \notin DOMAIN t.ckpt_files
                 THEN Outcome(t, "NotFoundError", None, <<Ev("restore_raise", step)>>)
                 ELSE Outcome([t EXCEPT !.params = t.ckpt_files[step], !.num_steps = step],
                              "", None, <<Ev("restore", step)>>)

\* ---------------------------------------------------------------- history
\* restored: step set by the last successful load_state (0 if none);
\* completed / applied: train_step calls that returned / updates applied since;
\* save_log: every successful save, in order; loads: successful load_state
\* calls; only_train: nothing but train and train_step has been called.
SaveEntry(step, explicit, p) == [step |-> step, explicit |-> explicit, params |-> p]

\* The saves of a call's trace appended to the log.
RECURSIVE LogSaves(_, _, _)
LogSaves(log, trace, explicit) ==
    IF trace = <<>> THEN log
    ELSE LogSaves(IF Head(trace).ev = "save"
                  THEN Append(log, SaveEntry(Head(trace).n, explicit, Head(trace).p))
                  ELSE log, Tail(trace), explicit)

HistAfterSteps(r) ==
    [hist EXCEPT !.completed = @ + CountEv(r.trace, "ret"),
                 !.applied = @ + CountEv(r.trace, "run"),
                 !.save_log = LogSaves(@, r.trace, FALSE)]

NumExplicit == Cardinality({i \in 1..Len(hist.save_log) : hist.save_log[i].explicit})

Install(t) ==
    /\ num_steps' = t.num_steps
    /\ params' = t.params
    /\ num_updates' = t.num_updates
    /\ ckpt_files' = t.ckpt_files
    /\ last_checkpoints' = t.last_checkpoints
    /\ log_dir_exists' = t.log_dir_exists

Call(op, arg, r) ==
    [op |-> op, arg |-> arg, raised |-> r.raised, ret |-> r.ret,
     trace |-> r.trace, pre |-> Cur]

\* ---------------------------------------------------------------- actions
TrainerInit ==
    /\ save_step \in {None} \cup {Some(k) : k \in 1..MaxSaveStep}
    /\ max_to_keep \in 1..MaxKeep
    /\ num_steps = 0
    /\ params = <<>>
    /\ num_updates = 0
    /\ ckpt_files = [s \in {} |-> <<>>]
    /\ last_checkpoints = <<>>
    /\ log_dir_exists = FALSE
    /\ latest_step_json = None
    /\ lastCall = [op |-> "init", arg |-> None, raised |-> "", ret |-> None,
                   trace |-> <<>>, pre |-> Cur]
    /\ hist = [restored |-> 0, completed |-> 0, applied |-> 0, save_log |-> <<>>,
               loads |-> 0, only_train |-> TRUE]

Init ==
    /\ TrainerInit
    /\ feed = None
    /\ naming = None
    /\ experiment = None
    /\ listing = None
    /\ selection = None
    /\ confusion = None /\ tester = None /\ cli = None /\ registry = None

TrainStepCall ==
    /\ num_updates < MaxUpdates
    /\ \E fault \in Faults :
         \* a save can only be made to fail when this step saves
         /\ fault = "save" => should_save(num_steps + 1)
         /\ \E r \in {train_step(Cur, fault)} :
                /\ Install(r.t)
                /\ lastCall' = Call("train_step", None, r)
                /\ hist' = HistAfterSteps(r)
    /\ UNCHANGED <<save_step, max_to_keep, latest_step_json>>

TrainStep == TrainStepCall /\ UNCHANGED side_vars

Train ==
    \E n \in 0..MaxTrain :
      /\ num_updates + n <= MaxUpdates
      /\ \E faultAt \in 0..n, faultKind \in Faults \ {"none"} :
           \* no fault (faultAt = 0) is one case, whatever the kind; a save
           \* can only be made to fail at a step at which a save is due
           /\ faultAt = 0 => faultKind = "run"
           /\ (faultAt > 0 /\ faultKind = "save") => should_save(num_steps + faultAt)
           /\ \E r \in {train(Cur, n, faultAt, faultKind)} :
                  /\ Install(r.t)
                  /\ lastCall' = Call("train", Some(n), r)
                  /\ hist' = HistAfterSteps(r)
      /\ UNCHANGED <<save_step, max_to_keep, latest_step_json>>
      /\ UNCHANGED side_vars

SaveState ==
    /\ NumExplicit < MaxExplicitSaves
    /\ \E fails \in BOOLEAN :
         \E r \in {save_state(Cur, fails)} :
             /\ Install(r.t)
             /\ lastCall' = Call("save_state", None, r)
             /\ hist' = [hist EXCEPT !.save_log = LogSaves(@, r.trace, TRUE),
                                     !.only_train = FALSE]
    /\ UNCHANGED <<save_step, max_to_keep, latest_step_json>>
    /\ UNCHANGED side_vars

LoadState ==
    /\ hist.loads < MaxLoads
    /\ \E step_num \in {None} \cup {Some(s) : s \in 0..MaxUpdates} :
         \E r \in {load_state(Cur, step_num)} :
             /\ Install(r.t)
             /\ lastCall' = Call("load_state", step_num, r)
             /\ hist' = IF r.raised # "" THEN [hist EXCEPT !.only_train = FALSE]
                        ELSE [hist EXCEPT
                                !.restored = r.trace[1].n,
                                !.completed = 0,
                                !.applied = 0,
                                !.loads = @ + 1,
                                !.only_train = FALSE]
    /\ UNCHANGED <<save_step, max_to_keep, latest_step_json>>
    /\ UNCHANGED side_vars

Next == TrainStep \/ Train \/ SaveState \/ LoadState

Spec == Init /\ [][Next]_vars

\* ------------------------------------------------------------- properties
EvNames(trace) == [i \in 1..Len(trace) |-> trace[i].ev]

Returned(op) == lastCall.op = op /\ lastCall.raised = ""

\* The calls that leave the counter alone did so.
CounterFrame ==
    /\ lastCall.op = "save_state" => num_steps = lastCall.pre.num_steps
    /\ (lastCall.op = "load_state" /\ lastCall.raised # "") =>
           num_steps = lastCall.pre.num_steps
    /\ Returned("load_state") => num_steps = hist.restored
    /\ lastCall.op \in {"train_step", "train"} =>
           num_steps = lastCall.pre.num_steps + CountEv(lastCall.trace, "run")

\* C1 as stated: num_steps is the step set by the last successful load_state
\* (0 if none) plus the number of train_step calls completed since, and only
\* train_step and load_state change it.
C1_CountsCompletedCalls ==
    /\ num_steps = hist.restored + hist.completed
    /\ CounterFrame

\* C1 amended: num_steps is the step set by the last successful load_state
\* (0 if none) plus the number of updates applied by train_step since, a call
\* whose checkpoint save raised after the increment included; only train_step
\* (+1 per applied update) and load_state (the loaded step) change it.
C1_CountsAppliedUpdates ==
    /\ num_steps = hist.restored + hist.applied
    /\ CounterFrame

C1_Witness ==
    /\ lastCall.op = "train_step"
    /\ lastCall.raised = "SaveError"
    /\ hist.restored > 0
    /\ hist.applied > hist.completed

\* C2: a train_step call that returns has applied one update, then incremented
\* num_steps by one, then called save_state exactly when save_step is not None
\* and the new num_steps is a multiple of it (the checkpoint then holds the
\* updated parameters under the new num_steps), and returns the new num_steps.
C2_TrainStepEffect ==
    Returned("train_step") =>
        LET pre == lastCall.pre
            due == save_step # None /\ num_steps % save_step[1] = 0
        IN  /\ num_updates = pre.num_updates + 1
            /\ params = Append(pre.params, num_updates)
            /\ num_steps = pre.num_steps + 1
            /\ lastCall.ret[2] = num_steps
            /\ EvNames(lastCall.trace) =
                   <<"run", "inc">> \o (IF due THEN <<"save">> ELSE <<>>) \o <<"ret">>
            /\ lastCall.trace[1].p = params
            /\ lastCall.trace[2].n = num_steps
            /\ due => /\ lastCall.trace[3].n = num_steps
                      /\ num_steps \in DOMAIN ckpt_files
                      /\ ckpt_files[num_steps] = params
            /\ ~due => ckpt_files = pre.ckpt_files

C2_Witness ==
    /\ Returned("train_step")
    /\ save_step # None
    /\ save_step[1] > 1
    /\ CountEv(lastCall.trace, "save") = 1
    /\ lastCall.pre.num_steps > 0

\* C3 as stated: should_save is true exactly when num_steps is a positive
\* multiple of save_step, and false when save_step is None.
C3_PositiveMultiple ==
    should_save(num_steps) <=>
        (save_step # None /\ \E k \in 1..num_steps : num_steps = k * save_step[1])

\* C3 amended: should_save is true exactly when num_steps is a multiple of
\* save_step, zero included (so it is true of the freshly constructed trainer),
\* and false when save_step is None.
C3_AnyMultiple ==
    should_save(num_steps) <=>
        (save_step # None /\ \E k \in 0..num_steps : num_steps = k * save_step[1])

C3_Witness ==
    /\ lastCall.op = "init"
    /\ num_steps = 0
    /\ save_step # None
    /\ should_save(num_steps)

RunEvents(trace) == SelectSeq(trace, LAMBDA e : e.ev = "run")

\* C4: a train(n) call that returns has made exactly n consecutive train_step
\* calls, advanced num_steps by n, and returns n outputs, the i-th being the
\* output of the i-th step of this call.
C4_TrainRunsNSteps ==
    Returned("train") =>
        LET n == lastCall.arg[1]
            pre == lastCall.pre
            runs == RunEvents(lastCall.trace)
            output == lastCall.ret[1]
        IN  /\ Len(runs) = n
            /\ CountEv(lastCall.trace, "ret") = n
            /\ \A i \in 1..n : runs[i].n = pre.num_steps + i - 1
            /\ num_steps = pre.num_steps + n
            /\ num_updates = pre.num_updates + n
            /\ Len(output) = n
            /\ \A i \in 1..n : output[i] = runs[i].p[Len(runs[i].p)]

C4_Witness ==
    /\ Returned("train")
    /\ lastCall.arg[1] >= 2
    /\ lastCall.pre.num_steps > 0

\* C5: the step-index sequence train(n) returns has exactly n elements, as
\* many as the outputs, starts at the num_steps of before the call and goes up
\* by one from each element to the next.
C5_IterationsOnePerStep ==
    Returned("train") =>
        LET n == lastCall.arg[1]
            iterations == lastCall.ret[2]
        IN  /\ Len(iterations) = n
            /\ Len(iterations) = Len(lastCall.ret[1])
            /\ n > 0 => iterations[1] = lastCall.pre.num_steps
            /\ \A i \in 1..(Len(iterations) - 1) : iterations[i + 1] = iterations[i] + 1

SavedSteps == [i \in 1..Len(hist.save_log) |-> hist.save_log[i].step]

LastSave == hist.save_log[Len(hist.save_log)]

\* The most recent save made under step S.
LastSaveOf(S) ==
    hist.save_log[CHOOSE i \in 1..Len(hist.save_log) :
                     /\ hist.save_log[i].step = S
                     /\ \A j \in (i + 1)..Len(hist.save_log) : hist.save_log[j].step # S]

IsPrefix(a, b) == Len(a) <= Len(b) /\ SubSeq(b, 1, Len(a)) = a

\* C6: after a save at step S, the most recent one, and train_step calls that
\* do not save, load_state with no step argument returns normally, restores the
\* parameters saved at S and sets num_steps to S; latest_step.json records S.
C6_DefaultResumeRoundTrip ==
    (/\ lastCall.op = "load_state"
     /\ lastCall.arg = None
     /\ hist.save_log # <<>>
     /\ LastSave.step \in DOMAIN lastCall.pre.ckpt_files
     /\ IsPrefix(LastSave.params, lastCall.pre.params)
     /\ lastCall.pre.num_steps - LastSave.step
            = Len(lastCall.pre.params) - Len(LastSave.params)) =>
        /\ lastCall.raised = ""
        /\ num_steps = LastSave.step
        /\ params = LastSave.params
        /\ latest_step_json = Some(LastSave.step)

\* The k distinct elements of s that occur last in it.
RECURSIVE MostRecentDistinct(_, _)
MostRecentDistinct(s, k) ==
    IF s = <<>> \/ k = 0 THEN {}
    ELSE LET x == s[Len(s)]
         IN  {x} \cup MostRecentDistinct(RemoveAll(SubSeq(s, 1, Len(s) - 1), x), k - 1)

C8_CheckpointProvenance ==
    /\ \A S \in DOMAIN ckpt_files :
          /\ S \in Range(SavedSteps)
          /\ \/ LastSaveOf(S).explicit
             \/ (save_step # None /\ \E k \in 0..S : S = k * save_step[1])
    /\ hist.only_train =>
          \A S \in DOMAIN ckpt_files :
              save_step # None /\ \E k \in 1..S : S = k * save_step[1]
    /\ (hist.only_train /\ save_step = None) => DOMAIN ckpt_files = {}

C8_Witness ==
    /\ hist.only_train
    /\ save_step # None
    /\ save_step[1] > 1
    /\ DOMAIN ckpt_files # {}
    /\ num_steps \notin DOMAIN ckpt_files

\* C9: load_state(S) with an explicit S whose checkpoint is on disk returns
\* normally, restores the parameters saved under S and sets num_steps to S,
\* whether num_steps was larger or smaller than S before.
C9_ExplicitLoadRestores ==
    (/\ lastCall.op = "load_state"
     /\ lastCall.arg # None
     /\ lastCall.arg[1] \in DOMAIN lastCall.pre.ckpt_files) =>
        /\ lastCall.raised = ""
        /\ num_steps = lastCall.arg[1]
        /\ params = LastSaveOf(lastCall.arg[1]).params
        /\ ckpt_files = lastCall.pre.ckpt_files

\* num_steps was smaller than S before the call, which takes an earlier
\* load_state from a larger num_steps down to a retained checkpoint.
C9_Witness ==
    /\ Returned("load_state")
    /\ lastCall.arg # None
    /\ lastCall.pre.num_steps < lastCall.arg[1]
    /\ hist.loads = 2
    /\ params # lastCall.pre.params

\* C10: load_state(S) for a step S with no checkpoint on disk (never saved, or
\* evicted) raises and leaves num_steps (and the parameters) unchanged.
C10_MissingCheckpointFails ==
    (/\ lastCall.op = "load_state"
     /\ lastCall.arg # None
     /\ lastCall.arg[1] \notin DOMAIN lastCall.pre.ckpt_files) =>
        /\ lastCall.raised # ""
        /\ num_steps = lastCall.pre.num_steps
        /\ params = lastCall.pre.params

\* The step was saved and has been evicted since.
C10_Witness ==
    /\ lastCall.op = "load_state"
    /\ lastCall.arg # None
    /\ lastCall.arg[1] \in Range(SavedSteps)
    /\ lastCall.arg[1] \notin DOMAIN ckpt_files
    /\ lastCall.arg[1] # num_steps
    /\ lastCall.raised # ""

\* ------------------------------------------------- runs whose saves succeed
\* The trainer's calls in an environment where no checkpoint write raises.
NextSavesSucceed ==
    \/ TrainStep /\ CountEv(lastCall'.trace, "save_raise") = 0
    \/ Train /\ CountEv(lastCall'.trace, "save_raise") = 0
    \/ SaveState /\ CountEv(lastCall'.trace, "save_raise") = 0
    \/ LoadState

SpecSavesSucceed == Init /\ [][NextSavesSucceed]_vars

\* The parameter values a crash can fall back on: the initial ones and those
\* of every save made (a restore point is one of them, the directory having
\* started empty).
Captured == {<<>>} \cup {hist.save_log[i].params : i \in 1..Len(hist.save_log)}

\* Updates applied since the most recent save or restore: those that separate
\* the parameters from their nearest captured ancestor.
Uncaptured ==
    LET d == {Len(params) - Len(c) : c \in {x \in Captured : IsPrefix(x, params)}}
    IN  CHOOSE m \in d : \A k \in d : m <= k

\* C11: with a positive save_step and saves that succeed, between any two
\* calls at most save_step - 1 applied updates are captured neither by the
\* most recent checkpoint nor by the last restore point.
C11_LostWorkBounded ==
    save_step # None => Uncaptured <= save_step[1] - 1

C11_Witness ==
    /\ save_step # None
    /\ save_step[1] >= 2
    /\ hist.loads > 0
    /\ Len(hist.save_log) >= 2
    /\ Uncaptured = save_step[1] - 1

\* ------------------------------------------------ train_step's feed_dict
\* A feed_dict maps placeholders to values; a placeholder that is not a key
\* maps to None. The keys are network.is_training and two input placeholders.
FeedDicts ==
    [is_training : {None} \cup {Some(b) : b \in BOOLEAN},
     x : {None} \cup {Some(v) : v \in 0..MaxFeedValue},
     y : {None} \cup {Some(v) : v \in 0..MaxFeedValue}]

EmptyDict == [is_training |-> None, x |-> None, y |-> None]

\* {self.network.is_training: True, **feed_dict}: the unpacked entries come
\* after the literal one, and a later entry of a dict display replaces an
\* earlier one with the same key.
DictWithTraining(feed_dict) ==
    [k \in DOMAIN feed_dict |->
        IF feed_dict[k] # None THEN feed_dict[k]
        ELSE IF k = "is_training" THEN Some(TRUE) ELSE None]

\* The feed_dict that train_step hands to session.run; the argument is None
\* (the default) or Some(dict).
run_feed_dict(arg) ==
    DictWithTraining(IF arg = None THEN EmptyDict ELSE arg[1])

InitFeed ==
    /\ TrainerInit
    /\ feed = [called |-> FALSE, feed_dict |-> None, run_feed |-> EmptyDict]
    /\ naming = None
    /\ experiment = None
    /\ listing = None
    /\ selection = None
    /\ confusion = None /\ tester = None /\ cli = None /\ registry = None

\* train_step(session, feed_dict=arg), for every argument.
TrainStepFed ==
    /\ TrainStepCall
    /\ \E arg \in {None} \cup {Some(d) : d \in FeedDicts} :
         feed' = [called |-> TRUE, feed_dict |-> arg,
                  run_feed |-> run_feed_dict(arg)]
    /\ UNCHANGED <<naming, experiment, listing, selection,
                 confusion, tester, cli, registry>>

NextFeed == TrainStepFed

SpecFeed == InitFeed /\ [][NextFeed]_vars

\* C12: every train_step runs the update with is_training fed as true,
\* whatever feed_dict the caller passes, one that has is_training among its
\* keys included.
C12_AlwaysTrainingMode ==
    feed.called => feed.run_feed.is_training = Some(TRUE)

\* ------------------------------------------------------ run-name resolution
\* A string is the sequence of its characters.
DigitChar(d) == <<"0", "1", "2", "3", "4", "5", "6", "7", "8", "9">>[d + 1]

\* str(i) for i >= 0: the decimal digits, most significant first.
RECURSIVE Decimal(_)
Decimal(i) == IF i < 10 THEN <<DigitChar(i)>>
              ELSE Decimal(i \div 10) \o <<DigitChar(i % 10)>>

\* f"{i:02d}": the decimal digits, padded on the left with zeros to width 2.
format_02d(i) ==
    LET d == Decimal(i)
    IN  IF Len(d) < 2 THEN <<"0">> \o d ELSE d

\* f"{name}_{i:02d}"
Suffixed(name, i) == name \o <<"_">> \o format_02d(i)

\* (self.log_dir / name).is_dir(): nm.dirs are the entries of log_dir that
\* are directories, nm.files those that are regular files.
name_taken_any_entry(nm, name) == name \in nm.dirs \cup nm.files

name_taken(nm, name) == name \in nm.dirs

\* The while loop of _get_name from i on: the name returned and the names
\* probed on the way.
RECURSIVE probe_from(_, _, _)
probe_from(nm, name, i) ==
    IF name_taken(nm, Suffixed(name, i))
    THEN LET r == probe_from(nm, name, i + 1)
         IN  [name |-> r.name, probed |-> <<Suffixed(name, i)>> \o r.probed]
    ELSE [name |-> Suffixed(name, i), probed |-> <<Suffixed(name, i)>>]

get_name(nm) ==
    IF nm.continue_old THEN [name |-> nm.name, probed |-> <<>>]
    ELSE probe_from(nm, nm.name, 0)

RunNames == {<<"e">>, <<"e", "_", "0", "0">>}

\* Entries that log_dir may hold before the run: run directories of "e" with
\* every suffix up to MaxIndex, and names that are no two-digit suffix of it.
DirCandidates ==
    {Suffixed(<<"e">>, i) : i \in 0..MaxIndex}
        \cup {<<"e">>, <<"e", "_", "0">>, <<"e", "_", "0", "0", "_", "0", "0">>}

FileCandidates == {Suffixed(<<"e">>, 0), Suffixed(<<"e">>, 1)}

InitNaming ==
    /\ TrainerInit /\ save_step = None /\ max_to_keep = 1
    /\ feed = None
    /\ experiment = None
    /\ listing = None
    /\ selection = None
    /\ confusion = None /\ tester = None /\ cli = None /\ registry = None
    /\ \E dirs \in SUBSET DirCandidates, files \in SUBSET FileCandidates,
          name \in RunNames, continue_old \in BOOLEAN :
         /\ dirs \cap files = {}
         /\ naming = [dirs |-> dirs, files |-> files, name |-> name,
                      continue_old |-> continue_old, called |-> FALSE,
                      resolved |-> <<>>, probed |-> <<>>]

\* NetworkExperiment._get_name(experiment_params)
GetName ==
    /\ ~naming.called
    /\ LET r == get_name(naming)
       IN  naming' = [naming EXCEPT !.called = TRUE, !.resolved = r.name,
                                    !.probed = r.probed]
    /\ UNCHANGED <<trainer_vars, feed, experiment, listing, selection,
                 confusion, tester, cli, registry>>

NextNaming == GetName

SpecNaming == InitNaming /\ [][NextNaming]_vars

\* The two digits of i < 100, zero-padded.
TwoDigits(i) == <<DigitChar(i \div 10), DigitChar(i % 10)>>

\* C13: a non-continuing run named name resolves to name_NN, NN the smallest
\* i >= 0 (zero-padded to two digits) for which log_dir/name_NN is not an
\* existing directory, found after probing at most one name more than there
\* are directories; a continuing run gets the configured name verbatim and
\* probes nothing.
C13_RunNameResolution ==
    naming.called =>
        IF naming.continue_old
        THEN naming.resolved = naming.name /\ naming.probed = <<>>
        ELSE \E i \in 0..Cardinality(naming.dirs) :
               /\ i < 100
               /\ naming.resolved = naming.name \o <<"_">> \o TwoDigits(i)
               /\ naming.resolved \notin naming.dirs
               /\ \A j \in 0..(i - 1) :
                    (naming.name \o <<"_">> \o TwoDigits(j)) \in naming.dirs
               /\ Len(naming.probed) = i + 1

\* A gap in the existing suffixes is filled, a regular file is no directory.
C13_Witness ==
    /\ naming.called /\ ~naming.continue_old
    /\ naming.name = <<"e">>
    /\ {<<"e", "_", "0", "0">>, <<"e", "_", "0", "2">>} \subseteq naming.dirs
    /\ <<"e", "_", "0", "1">> \in naming.files
    /\ naming.resolved = <<"e", "_", "0", "1">>

\* ------------------------------------------------- the experiment orchestrator
\* One entry of the log of a train call.  ev is "init" (the session was
\* initialised), "load" (trainer.load_state returned), "train_step" (one
\* update ran), "val_pass" (one validation run), "log_multiple" and "log"
\* (a logger was called), "raise" (the call left with an exception).  it is
\* the loop iteration, sink the logger called, phase the log type, tags the
\* iteration numbers passed, num_steps the trainer's counter at that moment,
\* is_training the value fed for model.is_training, summaries what was logged.
ExpEv(ev, it, sink, phase, tags, t, is_training, summaries) ==
    [ev |-> ev, it |-> it, sink |-> sink, phase |-> phase, tags |-> tags,
     num_steps |-> t.num_steps, is_training |-> is_training,
     summaries |-> summaries]

\* Result of a part of the orchestrator: the trainer's state, the exception
\* raised ("" if none), the returned value and the log entries made.
ExpOutcome(t, raised, ret, log) == [t |-> t, raised |-> raised, ret |-> ret, log |-> log]

\* F applied to the value of v, v being evaluated once.
With(v, F(_)) == CHOOSE o \in {F(x) : x \in {v}} : TRUE

\* The updates the trainer ran in one trainer.train call, one log entry each:
\* train passes no feed_dict, so train_step feeds its own is_training entry.
RECURSIVE StepEvents(_, _)
StepEvents(trace, it) ==
    IF trace = <<>> THEN <<>>
    ELSE LET e == Head(trace)
         IN  (IF e.ev = "run"
              THEN <<[ev |-> "train_step", it |-> it, sink |-> "", phase |-> "train",
                      tags |-> <<>>, num_steps |-> e.n,
                      is_training |-> run_feed_dict(None).is_training,
                      summaries |-> <<>>]>>
              ELSE <<>>) \o StepEvents(Tail(trace), it)

\* _train_steps(sess): trainer.train(sess, val_interval, train_ops); returns
\* the summaries of the steps and the iteration numbers.
train_steps(t, e, it, faultAt, faultKind) ==
    With(train(t, e.val_interval, faultAt, faultKind),
         LAMBDA r : ExpOutcome(r.t, r.raised, r.ret, StepEvents(r.trace, it)))

\* A graph operation, named by the object that holds it and the attribute.
Op(owner, attr) == [owner |-> owner, attr |-> attr]

\* The trainer's _train_step, the operation init_train_op builds: the one
\* operation of the graph that assigns to the trainable parameters.
train_step_op == Op("trainer", "_train_step")

\* session.run(fetches): the parameters are updated exactly when the
\* trainer's _train_step is among the operations fetched.
session_run_ops(t, fetches) ==
    IF \E k \in 1..Len(fetches) : fetches[k] = train_step_op
    THEN session_run(t) ELSE t

sacred_val_ops_with_train_step ==
    <<train_step_op, Op("tb_logger", "train_summary_op"),
      Op("h5_logger", "train_summary_op"), Op("sacred_logger", "train_summary_op")>>

\* val_ops of SacredExperiment._val_logs
sacred_val_ops ==
    <<Op("tb_logger", "train_summary_op"), Op("h5_logger", "train_summary_op"),
      Op("sacred_logger", "train_summary_op")>>

\* _val_logs(sess): sess.run(val_ops, feed_dict={model.is_training: False});
\* no update is run, the summary is computed from the current parameters.
val_logs(t, it) ==
    LET ran == session_run_ops(t, sacred_val_ops)
    IN  ExpOutcome(ran, "", ran.params,
                   <<ExpEv("val_pass", it, "", "val", <<>>, ran, Some(FALSE), <<>>)>>)

\* logger.log_multiple(summaries, it_nums) of the loggers in turn.
log_multiple_all(t, it, sinks, summaries, it_nums) ==
    [k \in 1..Len(sinks) |->
        ExpEv("log_multiple", it, sinks[k], "train", it_nums, t, None, summaries)]

\* logger.log(summary, it_nums[-1], log_type="val") of the loggers in turn.
log_val_all(t, it, sinks, summary, it_nums) ==
    [k \in 1..Len(sinks) |->
        ExpEv("log", it, sinks[k], "val", <<it_nums[Len(it_nums)]>>, t, None, summary)]

SacredSinks_h5_first == <<"h5", "tb", "sacred">>

\* The loggers in the order _train_its calls them: the TensorBoard logger,
\* the HDF5 logger, the Sacred logger.
SacredSinks == <<"tb", "h5", "sacred">>

sacred_train_its_val_first(t, e, it, faultAt, faultKind) ==
    With(train_steps(t, e, it, faultAt, faultKind),
         LAMBDA r :
           IF r.raised # "" THEN r
           ELSE LET v == val_logs(r.t, it)
                IN  ExpOutcome(v.t, "", None,
                        r.log \o v.log
                              \o log_multiple_all(v.t, it, SacredSinks, r.ret[1], r.ret[2])
                              \o log_val_all(v.t, it, SacredSinks, v.ret, r.ret[2])))

\* SacredExperiment._train_its(sess)
sacred_train_its(t, e, it, faultAt, faultKind) ==
    With(train_steps(t, e, it, faultAt, faultKind),
         LAMBDA r :
           IF r.raised # "" THEN r
           ELSE LET summaries == r.ret[1]
                    it_nums == r.ret[2]
                    v == val_logs(r.t, it)
                IN  ExpOutcome(v.t, "", None,
                        r.log \o log_multiple_all(r.t, it, SacredSinks, summaries, it_nums)
                              \o v.log
                              \o log_val_all(v.t, it, SacredSinks, v.ret, it_nums)))

\* NetworkExperiment._train_its(sess): the first statement after
\* _train_steps reads it_num, a name bound nowhere (it_nums is), so that
\* evaluating the arguments of tb_logger.log_multiple raises NameError.
plain_train_its(t, e, it, faultAt, faultKind) ==
    With(train_steps(t, e, it, faultAt, faultKind),
         LAMBDA r : IF r.raised # "" THEN r
                    ELSE ExpOutcome(r.t, "NameError", None, r.log))

train_its(t, e, it, faultAt, faultKind) ==
    IF e.variant = "sacred" THEN sacred_train_its(t, e, it, faultAt, faultKind)
    ELSE plain_train_its(t, e, it, faultAt, faultKind)

\* _init_session(sess): the initialisers give the parameters their initial
\* values; a continuing run then calls trainer.load_state(sess, step_num=None).
init_session(t, e) ==
    LET fresh == [t EXCEPT !.params = <<>>]
        started == <<ExpEv("init", 0, "", "", <<>>, fresh, None, <<>>)>>
    IN  IF e.continue_old
        THEN LET l == load_state(fresh, None)
             IN  IF l.raised # "" THEN ExpOutcome(l.t, l.raised, None, started)
                 ELSE ExpOutcome(l.t, "", None,
                          started \o <<ExpEv("load", 0, "", "", <<>>, l.t, None, <<>>)>>)
        ELSE ExpOutcome(fresh, "", None, started)

\* The for loop of train from iteration it on; faultIt names the iteration
\* (0 for none) in whose faultAt-th step the environment forces faultKind.
RECURSIVE train_its_loop(_, _, _, _, _, _, _)
train_its_loop(acc, e, it, num_vals, faultIt, faultAt, faultKind) ==
    IF it > num_vals \/ acc.raised # "" THEN acc
    ELSE With(train_its(acc.t, e, it, IF it = faultIt THEN faultAt ELSE 0, faultKind),
              LAMBDA r :
                With(ExpOutcome(r.t, r.raised, None, acc.log \o r.log),
                     LAMBDA next :
                       train_its_loop(next, e, it + 1, num_vals,
                                      faultIt, faultAt, faultKind)))

experiment_train_round_up(t, e, n, faultIt, faultAt, faultKind) ==
    With(init_session(t, e),
         LAMBDA s :
           With(train_its_loop(s, e, 1, (n + e.val_interval - 1) \div e.val_interval,
                               faultIt, faultAt, faultKind),
                LAMBDA r :
                  IF r.raised # ""
                  THEN ExpOutcome(r.t, r.raised, None,
                           r.log \o <<ExpEv("raise", 0, "", "", <<>>, r.t, None, <<>>)>>)
                  ELSE r))

\* NetworkExperiment.train(num_steps), n being its num_steps argument.
experiment_train(t, e, n, faultIt, faultAt, faultKind) ==
    With(init_session(t, e),
         LAMBDA s :
           With(train_its_loop(s, e, 1, n \div e.val_interval,
                               faultIt, faultAt, faultKind),
                LAMBDA r :
                  IF r.raised # ""
                  THEN ExpOutcome(r.t, r.raised, None,
                           r.log \o <<ExpEv("raise", 0, "", "", <<>>, r.t, None, <<>>)>>)
                  ELSE r))

Variants == {"plain", "sacred"}

InitExperiment ==
    /\ TrainerInit
    /\ feed = None
    /\ naming = None
    /\ listing = None
    /\ selection = None
    /\ confusion = None /\ tester = None /\ cli = None /\ registry = None
    /\ \E variant \in Variants, continue_old \in BOOLEAN,
          val_interval \in 1..MaxValInterval :
         experiment = [variant |-> variant, continue_old |-> continue_old,
                       val_interval |-> val_interval, calls |-> 0,
                       target |-> 0, fault |-> "none", raised |-> "",
                       before |-> 0, log |-> <<>>]

\* experiment.train(n), in an environment that lets every step succeed or
\* makes one step of one iteration raise.
ExperimentTrain ==
    /\ experiment.calls < MaxExpCalls
    /\ \E n \in 0..MaxUpdates :
         /\ num_updates + n <= MaxUpdates
         /\ \E faultIt \in 0..(n \div experiment.val_interval),
               faultAt \in 1..experiment.val_interval,
               faultKind \in Faults \ {"none"} :
              \E r \in {experiment_train(Cur, experiment, n, faultIt, faultAt, faultKind)} :
                  /\ Install(r.t)
                  /\ experiment' =
                       [experiment EXCEPT
                          !.calls = @ + 1,
                          !.target = n,
                          !.fault = IF CountEv(r.log, "raise") > 0
                                       /\ r.raised \in {"RunError", "SaveError"}
                                    THEN faultKind ELSE "none",
                          !.raised = r.raised,
                          !.before = num_steps,
                          !.log = r.log]
    /\ UNCHANGED <<save_step, max_to_keep, latest_step_json, lastCall, hist,
                   feed, naming, listing, selection,
                 confusion, tester, cli, registry>>

NextExperiment == ExperimentTrain

SpecExperiment == InitExperiment /\ [][NextExperiment]_vars

\* ------------------------------------------- properties of the orchestrator
ELog == experiment.log

ExpCalled == experiment.calls > 0

NumVals == experiment.target \div experiment.val_interval

\* Positions of the log entries of kind ev made in iteration it.
Idx(ev, it) == {i \in 1..Len(ELog) : ELog[i].ev = ev /\ ELog[i].it = it}

\* floor(target / val_interval) iterations, each of val_interval training
\* steps followed by one validation pass run with is_training false, and no
\* validation pass between two training steps of one block.
Alternation ==
    /\ \A i \in 1..Len(ELog) : ELog[i].it <= NumVals
    /\ \A it \in 1..NumVals :
         /\ Cardinality(Idx("train_step", it)) = experiment.val_interval
         /\ Cardinality(Idx("val_pass", it)) = 1
         /\ \A v \in Idx("val_pass", it) :
              /\ ELog[v].is_training = Some(FALSE)
              /\ \A s \in Idx("train_step", it) : s < v
         /\ \A s1 \in Idx("train_step", it), s2 \in Idx("train_step", it) :
              \A v \in (s1 + 1)..(s2 - 1) : ELog[v].ev # "val_pass"

\* C14: train(N) executes exactly floor(N / val_interval) loop iterations,
\* each being val_interval consecutive training steps followed by exactly one
\* validation pass with training mode disabled (in an environment in which no
\* step is made to fail).
C14_TrainAlternatesBlocksAndValidation ==
    (ExpCalled /\ experiment.fault = "none") => Alternation

\* What holds of the code: the same for a database-tracked orchestrator that
\* does not continue an old run.
FreshSacredAlternation ==
    (/\ ExpCalled /\ experiment.fault = "none"
     /\ experiment.variant = "sacred" /\ ~experiment.continue_old) => Alternation

Before(ev, it, i) == {j \in Idx(ev, it) : j < i}

\* C16: in each iteration the training steps come first, then the validation
\* pass, then the dispatch of the training-interval summaries and of the
\* validation summary: no training-interval summary is dispatched before
\* that iteration's validation pass has run.
C16_DispatchAfterValidation ==
    \A i \in 1..Len(ELog) :
        ELog[i].ev \in {"log_multiple", "log"} =>
            /\ Cardinality(Before("train_step", ELog[i].it, i)) = experiment.val_interval
            /\ Before("val_pass", ELog[i].it, i) # {}

\* C16, as the code has it: in each iteration the training steps come first,
\* then the dispatch of the training-interval summaries, then the validation
\* pass, then the dispatch of the validation summary.
C16_TrainDispatchBeforeValidation ==
    \A i \in 1..Len(ELog) :
        /\ ELog[i].ev = "log_multiple" =>
             /\ Cardinality(Before("train_step", ELog[i].it, i)) = experiment.val_interval
             /\ Before("val_pass", ELog[i].it, i) = {}
        /\ ELog[i].ev = "val_pass" =>
             /\ Cardinality(Before("train_step", ELog[i].it, i)) = experiment.val_interval
             /\ Cardinality(Before("log_multiple", ELog[i].it, i)) = Len(SacredSinks)
             /\ Before("log", ELog[i].it, i) = {}
        /\ ELog[i].ev = "log" =>
             /\ Cardinality(Before("val_pass", ELog[i].it, i)) = 1
             /\ Cardinality(Before("log_multiple", ELog[i].it, i)) = Len(SacredSinks)
        /\ ELog[i].ev = "train_step" =>
             /\ Before("log_multiple", ELog[i].it, i) = {}
             /\ Before("val_pass", ELog[i].it, i) = {}

C16_Witness ==
    /\ experiment.raised = ""
    /\ experiment.val_interval = 2
    /\ Cardinality(Idx("log_multiple", 1)) = Len(SacredSinks)
    /\ Cardinality(Idx("log", 1)) = Len(SacredSinks)

Dispatches == {"log_multiple", "log"}

\* The pass that a dispatch summarises has completed before position i: all
\* training steps of the block for log_multiple, the validation run for log.
PassCompleted(i) ==
    IF ELog[i].ev = "log_multiple"
    THEN Cardinality(Before("train_step", ELog[i].it, i)) = experiment.val_interval
    ELSE Cardinality(Before("val_pass", ELog[i].it, i)) = 1

\* C17: every dispatch calls the loggers in the order TensorBoard logger,
\* HDF5 logger, then (when there is one) Sacred logger, each once, and calls
\* none of them before the pass it summarises has completed.
C17_SinkOrder ==
    \A i \in 1..Len(ELog) :
        ELog[i].ev \in Dispatches =>
            /\ PassCompleted(i)
            /\ ELog[i].sink \in {"tb", "h5", "sacred"}
            /\ ELog[i].sink = "tb" =>
                 /\ Before(ELog[i].ev, ELog[i].it, i) = {}
                 /\ i < Len(ELog)
                 /\ ELog[i + 1].ev = ELog[i].ev /\ ELog[i + 1].sink = "h5"
            /\ ELog[i].sink = "h5" =>
                 /\ ELog[i - 1].ev = ELog[i].ev /\ ELog[i - 1].it = ELog[i].it
                 /\ ELog[i - 1].sink = "tb"
            /\ ELog[i].sink = "sacred" =>
                 /\ experiment.variant = "sacred"
                 /\ ELog[i - 1].ev = ELog[i].ev /\ ELog[i - 1].it = ELog[i].it
                 /\ ELog[i - 1].sink = "h5"
                 /\ (i = Len(ELog) \/ ELog[i + 1].ev # ELog[i].ev)

C17_Witness ==
    /\ experiment.raised = ""
    /\ Cardinality(Idx("log", 2)) = Len(SacredSinks)
    /\ \E i \in Idx("log_multiple", 2) : ELog[i].sink = "sacred"

\* C18: every validation summary that is dispatched carries the phase 'val'
\* and, as its step index, the trainer's num_steps at the time of the
\* validation pass of its iteration.
C18_ValidationTag ==
    \A i \in 1..Len(ELog) :
        ELog[i].ev = "log" =>
            /\ ELog[i].phase = "val"
            /\ \E v \in Before("val_pass", ELog[i].it, i) :
                 /\ ELog[i].tags = <<ELog[v].num_steps>>
                 /\ ELog[v].num_steps
                      = experiment.before + ELog[i].it * experiment.val_interval

\* A second train call on the experiment, the counter starting above zero.
C18_Witness ==
    /\ experiment.calls = 2 /\ experiment.before > 0
    /\ \E i \in Idx("log", 1) : ELog[i].sink = "sacred" /\ ELog[i].tags = <<num_steps>>

\* ------------------------------------------------------ checkpoint discovery
\* str.split(sep) for a one-character sep: the pieces between the occurrences.
RECURSIVE Split(_, _)
Split(s, sep) ==
    IF \A i \in 1..Len(s) : s[i] # sep THEN <<s>>
    ELSE LET k == CHOOSE i \in 1..Len(s) :
                      s[i] = sep /\ \A j \in 1..(i - 1) : s[j] # sep
         IN  <<SubSeq(s, 1, k - 1)>> \o Split(SubSeq(s, k + 1, Len(s)), sep)

DigitValue(c) == CHOOSE d \in 0..9 : DigitChar(d) = c

IsDigit(c) == \E d \in 0..9 : DigitChar(d) = c

\* int(s): the number a non-empty string of decimal digits denotes; any other
\* string that occurs here (letters, '/', the empty string) raises ValueError.
RECURSIVE DigitsValue(_)
DigitsValue(s) == IF s = <<>> THEN 0
                  ELSE 10 * DigitsValue(SubSeq(s, 1, Len(s) - 1)) + DigitValue(s[Len(s)])

int(s) ==
    IF s # <<>> /\ \A i \in 1..Len(s) : IsDigit(s[i])
    THEN [raised |-> "", value |-> DigitsValue(s)]
    ELSE [raised |-> "ValueError", value |-> 0]

\* checkpoint_to_it(checkpoint), checkpoint being the path as a string.
checkpoint_to_it(checkpoint) == int(Split(Split(checkpoint, "-")[2], ".")[1])

StrCheckpoint == <<"c", "h", "e", "c", "k", "p", "o", "i", "n", "t">>

\* The files tf.train.Saver writes for step S, and its state file.
IndexFile(S) == StrCheckpoint \o <<"-">> \o Decimal(S) \o <<".", "i", "n", "d", "e", "x">>

MetaFile(S) == StrCheckpoint \o <<"-">> \o Decimal(S) \o <<".", "m", "e", "t", "a">>

\* fnmatch of a file name against "checkpoint-*.index".
glob_match(name) ==
    LET head == StrCheckpoint \o <<"-">>
        tail == <<".", "i", "n", "d", "e", "x">>
    IN  /\ Len(name) >= Len(head) + Len(tail)
        /\ SubSeq(name, 1, Len(head)) = head
        /\ SubSeq(name, Len(name) - Len(tail) + 1, Len(name)) = tail

\* The list comprehension over the paths glob yields, in the order it yields
\* them; the first int() that raises ends the call.
RECURSIVE its_of(_)
its_of(paths) ==
    IF paths = <<>> THEN [raised |-> "", value |-> <<>>]
    ELSE LET first == checkpoint_to_it(Head(paths))
             rest == its_of(Tail(paths))
         IN  IF first.raised # "" THEN [raised |-> first.raised, value |-> <<>>]
             ELSE IF rest.raised # "" THEN rest
             ELSE [raised |-> "", value |-> <<first.value>> \o rest.value]

\* get_all_checkpoint_its(), order being the order in which the directory
\* hands its matching entries to glob.
get_all_checkpoint_its(dir, order) ==
    its_of([k \in 1..Len(order) |-> dir \o <<"/">> \o order[k]])

\* trainer.log_dir = log_dir / network.name / 'checkpoints', shortened to
\* one letter a component: plain names, a name with a dash, and a name with
\* a dash followed by a digit and a dot.
CheckpointDirs ==
    {<<"l", "/", "n", "/", "c">>,
     <<"l", "/", "n", "-", "b", "/", "c">>,
     <<"l", "/", "n", "-", "7", ".", "5", "/", "c">>}

StepsOnDisk == (0..MaxCkptStep) \cup {10}

\* All orders in which the elements of S can be enumerated.
RECURSIVE Orders(_)
Orders(S) == IF S = {} THEN {<<>>}
             ELSE UNION {{<<x>> \o o : o \in Orders(S \ {x})} : x \in S}

InitListing ==
    /\ TrainerInit /\ save_step = None /\ max_to_keep = 1
    /\ feed = None /\ naming = None /\ experiment = None /\ selection = None
    /\ confusion = None /\ tester = None /\ cli = None /\ registry = None
    /\ \E dir \in CheckpointDirs, steps \in SUBSET StepsOnDisk :
         listing = [dir |-> dir, steps |-> steps,
                    entries |-> {IndexFile(S) : S \in steps}
                                  \cup {MetaFile(S) : S \in steps}
                                  \cup {StrCheckpoint},
                    called |-> FALSE, raised |-> "", ret |-> <<>>]

\* experiment.get_all_checkpoint_its()
GetAllCheckpointIts ==
    /\ ~listing.called
    /\ \E order \in Orders({f \in listing.entries : glob_match(f)}) :
         \E r \in {get_all_checkpoint_its(listing.dir, order)} :
           listing' = [listing EXCEPT !.called = TRUE, !.raised = r.raised,
                                      !.ret = r.value]
    /\ UNCHANGED <<trainer_vars, feed, naming, experiment, selection,
                 confusion, tester, cli, registry>>

NextListing == GetAllCheckpointIts

SpecListing == InitListing /\ [][NextListing]_vars

\* C19: get_all_checkpoint_its returns exactly the steps S for which a file
\* checkpoint-S.index is in the checkpoint directory, each once, in ascending
\* order, whatever the run name and the log directory path.
C19_SortedCheckpointSteps ==
    listing.called =>
        /\ listing.raised = ""
        /\ Range(listing.ret) = listing.steps
        /\ Len(listing.ret) = Cardinality(listing.steps)
        /\ \A i \in 1..Len(listing.ret), j \in 1..Len(listing.ret) :
             i < j => listing.ret[i] < listing.ret[j]

\* What holds of the code: with no dash in the directory's path, the steps
\* are returned each once, in the order of the directory listing.
DashFreeListing ==
    (listing.called /\ "-" \notin Range(listing.dir)) =>
        /\ listing.raised = ""
        /\ Range(listing.ret) = listing.steps
        /\ Len(listing.ret) = Cardinality(listing.steps)

\* ------------------------------------------------- best-checkpoint selection
\* A float is NaN or <<v>>.  The evaluator's precision, recall and dice
\* divide without a guard, so the mean of a metric can be NaN.
NaN == <<>>

Floats == {NaN} \cup {<<v>> : v \in 0..MaxMean}

\* x < y on floats: false as soon as one of them is NaN.
ISLT(x, y) == x # NaN /\ y # NaN /\ x[1] < y[1]

Reverse(s) == [i \in 1..Len(s) |-> s[Len(s) + 1 - i]]

\* count_run of CPython's list.sort on the keys: the length k of the run the
\* list starts with, k >= 2 being the length found so far; a run is strictly
\* descending or else non-descending.
RECURSIVE run_length(_, _, _)
run_length(a, k, descending) ==
    IF k < Len(a) /\ (ISLT(a[k + 1].mean, a[k].mean) <=> descending)
    THEN run_length(a, k + 1, descending)
    ELSE k

\* The binary search of binarysort: the place among a[1..r] (as an offset)
\* where pivot goes, to the right of the elements it is not less than.
RECURSIVE insertion_point(_, _, _, _)
insertion_point(a, pivot, l, r) ==
    LET p == l + ((r - l) \div 2)
        l2 == IF ISLT(pivot, a[p + 1].mean) THEN l ELSE p + 1
        r2 == IF ISLT(pivot, a[p + 1].mean) THEN p ELSE r
    IN  IF l2 < r2 THEN insertion_point(a, pivot, l2, r2) ELSE l2

\* binarysort: a[1..start] is sorted; insert the remaining elements one by one.
RECURSIVE binarysort(_, _)
binarysort(a, start) ==
    IF start >= Len(a) THEN a
    ELSE With(insertion_point(a, a[start + 1].mean, 0, start),
              LAMBDA l :
                With(SubSeq(a, 1, l) \o <<a[start + 1]>> \o SubSeq(a, l + 1, start)
                        \o SubSeq(a, start + 2, Len(a)),
                     LAMBDA b : binarysort(b, start + 1)))

\* sorted(_performance, key=itemgetter(1)) for fewer than 64 elements: the
\* initial run (reversed if descending), then binary insertion of the rest.
sorted_by_mean(a) ==
    IF Len(a) < 2 THEN a
    ELSE LET descending == ISLT(a[2].mean, a[1].mean)
             k == run_length(a, 2, descending)
         IN  binarysort(IF descending
                        THEN Reverse(SubSeq(a, 1, k)) \o SubSeq(a, k + 1, Len(a))
                        ELSE a, k)

\* _find_best_checkpoint(performances, metric): the last element of the list
\* of (it, mean, std) sorted by mean; performances lists the dict's items in
\* insertion order, the order in which the checkpoints were enumerated.
find_best_checkpoint(performances) ==
    sorted_by_mean(performances)[Len(performances)]

NoSelection == [it |-> 0, mean |-> NaN, std |-> 0]

InitSelection ==
    /\ TrainerInit /\ save_step = None /\ max_to_keep = 1
    /\ feed = None /\ naming = None /\ experiment = None /\ listing = None
    /\ confusion = None /\ tester = None /\ cli = None /\ registry = None
    /\ \E n \in 1..MaxCheckpoints :
         \E its \in Orders(1..n), means \in [1..n -> Floats], stds \in [1..n -> 0..1] :
           selection = [performances |->
                            [k \in 1..n |-> [it |-> its[k], mean |-> means[k],
                                             std |-> stds[k]]],
                        called |-> FALSE, ret |-> NoSelection]

\* experiment._find_best_checkpoint(performances, metric), as find_best_model
\* calls it.
FindBestCheckpoint ==
    /\ ~selection.called
    /\ selection' = [selection EXCEPT
                       !.called = TRUE,
                       !.ret = find_best_checkpoint(selection.performances)]
    /\ UNCHANGED <<trainer_vars, feed, naming, experiment, listing,
                 confusion, tester, cli, registry>>

NextSelection == FindBestCheckpoint

SpecSelection == InitSelection /\ [][NextSelection]_vars

Perf == selection.performances

\* C20: the selection returns a discovered step together with that step's
\* (mean, std), and no other discovered step has a greater mean.
C20_BestHasMaximalMean ==
    selection.called =>
        /\ \E k \in 1..Len(Perf) : Perf[k] = selection.ret
        /\ \A j \in 1..Len(Perf) : ~ISLT(selection.ret.mean, Perf[j].mean)

\* What holds of the code: when no mean is NaN, the step returned is the one
\* enumerated last among those of maximal mean.
NaNFreeSelection ==
    (selection.called /\ \A j \in 1..Len(Perf) : Perf[j].mean # NaN) =>
        \E k \in 1..Len(Perf) :
            /\ Perf[k] = selection.ret
            /\ \A j \in 1..Len(Perf) : Perf[j].mean[1] <= Perf[k].mean[1]
            /\ \A j \in (k + 1)..Len(Perf) : Perf[j].mean[1] < Perf[k].mean[1]

\* ------------------------------------- checkpoint contents, error propagation
StepCall == lastCall.op \in {"train_step", "train"}

\* C26: every checkpoint written under key S holds the parameters that S
\* update applications produce, S counted as num_steps counts; a save made
\* inside train_step comes right after that step's counter increment, which
\* comes right after that step's update, and stores the updated parameters.
C26_CheckpointHoldsStepState ==
    /\ \A S \in DOMAIN ckpt_files : Len(ckpt_files[S]) = S
    /\ \A i \in 1..Len(hist.save_log) :
         Len(hist.save_log[i].params) = hist.save_log[i].step
    /\ StepCall =>
         \A i \in 1..Len(lastCall.trace) :
            lastCall.trace[i].ev \in {"save", "save_raise"} =>
                /\ i >= 3
                /\ lastCall.trace[i - 1].ev = "inc"
                /\ lastCall.trace[i - 1].n = lastCall.trace[i].n
                /\ lastCall.trace[i - 2].ev = "run"
                /\ lastCall.trace[i - 2].n + 1 = lastCall.trace[i].n
                /\ lastCall.trace[i].ev = "save" =>
                     lastCall.trace[i].p = lastCall.trace[i - 2].p

C26_Witness ==
    /\ lastCall.op = "train_step"
    /\ hist.loads > 0
    /\ CountEv(lastCall.trace, "save") = 1
    /\ num_steps >= 2
    /\ ckpt_files[num_steps] = params
    /\ params # [k \in 1..Len(params) |-> k]

\* The events of the step of the call that raised: those after the last ret.
RECURSIVE FailedStep(_)
FailedStep(trace) ==
    IF trace = <<>> \/ trace[Len(trace)].ev = "ret" THEN <<>>
    ELSE Append(FailedStep(SubSeq(trace, 1, Len(trace) - 1)), trace[Len(trace)])

\* C27: when the update inside train_step raises, the error reaches the
\* caller with num_steps as that step found it and nothing saved by the
\* step; when save_state raises inside train_step, the error reaches the
\* caller with num_steps advanced by one for that step.
C27_ErrorPropagation ==
    StepCall =>
        LET failed == FailedStep(lastCall.trace)
            done == CountEv(lastCall.trace, "ret")
        IN  /\ (CountEv(lastCall.trace, "run_raise") > 0) =>
                /\ lastCall.raised = "RunError"
                /\ EvNames(failed) = <<"run_raise">>
                /\ num_steps = lastCall.pre.num_steps + done
                /\ num_steps = failed[1].n
                /\ Len(params) = Len(lastCall.pre.params) + done
                /\ lastCall.op = "train_step" =>
                     /\ ckpt_files = lastCall.pre.ckpt_files
                     /\ last_checkpoints = lastCall.pre.last_checkpoints
                     /\ params = lastCall.pre.params
            /\ (CountEv(lastCall.trace, "save_raise") > 0) =>
                /\ lastCall.raised = "SaveError"
                /\ EvNames(failed) = <<"run", "inc", "save_raise">>
                /\ num_steps = lastCall.pre.num_steps + done + 1
                /\ num_steps = failed[1].n + 1
                /\ num_steps \notin DOMAIN ckpt_files
                     \/ ckpt_files[num_steps] # params
            /\ lastCall.raised # "" =>
                CountEv(lastCall.trace, "run_raise")
                    + CountEv(lastCall.trace, "save_raise") = 1

C27_Witness ==
    /\ lastCall.op = "train"
    /\ lastCall.raised = "SaveError"
    /\ CountEv(lastCall.trace, "ret") = 1
    /\ lastCall.pre.num_steps > 0

\* C25: the plain orchestrator's train(N) with N >= val_interval completes
\* without error, and in each iteration dispatches the training-interval
\* summaries and the validation summary to the TensorBoard logger and to the
\* HDF5 logger (in an environment in which no step is made to fail).
C25_PlainOrchestratorCompletes ==
    (/\ ExpCalled /\ experiment.fault = "none"
     /\ experiment.variant = "plain" /\ ~experiment.continue_old
     /\ experiment.target >= experiment.val_interval) =>
        /\ experiment.raised = ""
        /\ \A it \in 1..NumVals :
             \A sink \in {"tb", "h5"} :
                /\ \E i \in Idx("log_multiple", it) : ELog[i].sink = sink
                /\ \E i \in Idx("log", it) : ELog[i].sink = sink

\* ------------------------------------------------- binary confusion counts
\* evaluator.py, BinaryClassificationEvaluator.  One example is a pair of
\* vectors over 1..n: the thresholded prediction and the target, both cast to
\* float32 and here holding 0 or 1.  The normalised counts are kept as
\* fractions count/num_elements, in exact arithmetic.

MaxElements == 4

Binary == {0, 1}

\* element-wise a * b and a - 1 of two tensors of one shape
times(a, b) == [i \in DOMAIN a |-> a[i] * b[i]]

minus_one(a) == [i \in DOMAIN a |-> a[i] - 1]

\* tf.count_nonzero over the axes of one example
count_nonzero(v) == Cardinality({i \in DOMAIN v : v[i] # 0})

\* np.prod(shape[1:]) of the network output, the shape of the prediction
num_elements(prediction) == Len(prediction)

Fraction(count, n) == [count |-> count, of |-> n]

\* the tensors whose non-zero entries each count counts
true_positive_terms(prediction, target) == times(prediction, target)

\* a true-negative count that forgets to shift the target
true_negative_terms_unshifted(prediction, target) ==
    times(minus_one(prediction), target)

true_negative_terms(prediction, target) ==
    times(minus_one(prediction), minus_one(target))

false_positive_terms(prediction, target) == times(prediction, minus_one(target))

false_negative_terms(prediction, target) == times(minus_one(prediction), target)

true_positives(prediction, target) ==
    Fraction(count_nonzero(true_positive_terms(prediction, target)),
             num_elements(prediction))

true_negatives(prediction, target) ==
    Fraction(count_nonzero(true_negative_terms(prediction, target)),
             num_elements(prediction))

false_positives(prediction, target) ==
    Fraction(count_nonzero(false_positive_terms(prediction, target)),
             num_elements(prediction))

false_negatives(prediction, target) ==
    Fraction(count_nonzero(false_negative_terms(prediction, target)),
             num_elements(prediction))

InitConfusion ==
    /\ TrainerInit /\ save_step = None /\ max_to_keep = 1
    /\ feed = None /\ naming = None /\ experiment = None /\ listing = None
    /\ selection = None /\ tester = None /\ cli = None /\ registry = None
    /\ confusion = None

\* One example run through the evaluator's four count operators.
EvaluateExample ==
    /\ confusion = None
    /\ \E n \in 1..MaxElements :
         \E prediction \in [1..n -> Binary], target \in [1..n -> Binary] :
           confusion' =
             [prediction |-> prediction, target |-> target,
              terms |-> [tp |-> true_positive_terms(prediction, target),
                         tn |-> true_negative_terms(prediction, target),
                         fp |-> false_positive_terms(prediction, target),
                         fn |-> false_negative_terms(prediction, target)],
              true_positives  |-> true_positives(prediction, target),
              true_negatives  |-> true_negatives(prediction, target),
              false_positives |-> false_positives(prediction, target),
              false_negatives |-> false_negatives(prediction, target)]
    /\ UNCHANGED <<trainer_vars, feed, naming, experiment, listing, selection,
                   tester, cli, registry>>

NextConfusion == EvaluateExample

SpecConfusion == InitConfusion /\ [][NextConfusion]_vars

Counts ==
    <<confusion.true_positives, confusion.true_negatives,
      confusion.false_positives, confusion.false_negatives>>

\* C24: for an example of num_elements binary entries the four counts sum to
\* num_elements (as fractions of num_elements they sum to 1), and every
\* element is counted by exactly one of the four.
C24_ConfusionCountsPartition ==
    confusion # None =>
        LET n == Len(confusion.prediction)
        IN  /\ \A k \in 1..4 : Counts[k].of = n
            /\ Counts[1].count + Counts[2].count
                 + Counts[3].count + Counts[4].count = n
            /\ \A i \in 1..n :
                 Cardinality({c \in {"tp", "tn", "fp", "fn"} :
                                 confusion.terms[c][i] # 0}) = 1

\* an example in which each of the four counts counts an element
C24_Witness ==
    /\ confusion # None
    /\ \A k \in 1..4 : Counts[k].count >= 1

\* ------------------------------------------------- evaluation passes
\* evaluator.py, NetworkTester, and the orchestrator's validation pass, run
\* on a trainer that has trained (and saved) before.

MaxDataLen == 2

MaxBatchSize == 2

\* The names test_model is called with: the three splits and others.
DataTypes == {"train", "val", "test", "validation", "Test", ""}

\* the metrics the tester was constructed with
TesterMetrics == <<"accuracy", "dice">>

performance_ops_with_train_step(metrics) ==
    <<train_step_op>> \o [k \in 1..Len(metrics) |-> Op("evaluator", metrics[k])]

\* {metric: getattr(evaluator, metric) for metric in metrics}
performance_ops(metrics) == [k \in 1..Len(metrics) |-> Op("evaluator", metrics[k])]

\* a feed dict over the placeholders is_training and is_testing
TesterFeed(is_training, is_testing) ==
    [is_training |-> is_training, is_testing |-> is_testing]

get_feed_dict_lenient(dataset) ==
    IF dataset = "train"
    THEN [raised |-> "", ret |-> TesterFeed(Some(TRUE), None)]
    ELSE IF dataset = "val"
    THEN [raised |-> "", ret |-> TesterFeed(Some(FALSE), Some(FALSE))]
    ELSE [raised |-> "", ret |-> TesterFeed(Some(FALSE), Some(TRUE))]

\* NetworkTester.get_feed_dict(dataset)
get_feed_dict(dataset) ==
    IF dataset = "train"
    THEN [raised |-> "", ret |-> TesterFeed(Some(TRUE), None)]
    ELSE IF dataset = "val"
    THEN [raised |-> "", ret |-> TesterFeed(Some(FALSE), Some(FALSE))]
    ELSE IF dataset = "test"
    THEN [raised |-> "", ret |-> TesterFeed(Some(FALSE), Some(TRUE))]
    ELSE [raised |-> "ValueError", ret |-> None]

\* NetworkTester.get_numits: int(np.ceil(data_len/batch_size))
get_numits(data_len, batch_size) == (data_len + batch_size - 1) \div batch_size

\* Outcome of an evaluation: the trainer's state, the exception raised, the
\* number of batches session.run evaluated and the feed dict they were run with.
TestOutcome(t, raised, batches, feed_dict) ==
    [t |-> t, raised |-> raised, batches |-> batches, feed_dict |-> feed_dict]

\* The for loop of test_model from batch i on; faultAt names the batch (0 for
\* none) whose session.run the environment makes fail.
RECURSIVE test_loop(_, _, _, _, _)
test_loop(acc, ops, i, num_its, faultAt) ==
    IF i > num_its \/ acc.raised # "" THEN acc
    ELSE IF i = faultAt
    THEN [acc EXCEPT !.raised = "RunError"]
    ELSE test_loop([acc EXCEPT !.t = session_run_ops(acc.t, ops), !.batches = @ + 1],
                   ops, i + 1, num_its, faultAt)

\* NetworkTester.test_model(data_type, sess), the reader of the split holding
\* data_len examples in batches of batch_size.  _create_performance_dict
\* reads performances[0]: IndexError when no batch was evaluated.
test_model(t, data_type, data_len, batch_size, faultAt) ==
    LET feed_dict == get_feed_dict(data_type)
    IN  IF feed_dict.raised # ""
        THEN TestOutcome(t, feed_dict.raised, 0, None)
        ELSE LET num_its == get_numits(data_len, batch_size)
                 done == test_loop(TestOutcome(t, "", 0, feed_dict.ret),
                                   performance_ops(TesterMetrics), 1, num_its, faultAt)
             IN  IF done.raised = "" /\ done.batches = 0
                 THEN [done EXCEPT !.raised = "IndexError"]
                 ELSE done

InitTester ==
    /\ TrainerInit
    /\ feed = None /\ naming = None /\ experiment = None /\ listing = None
    /\ selection = None /\ confusion = None /\ cli = None /\ registry = None
    /\ tester = None

\* The trainer trains; no evaluation has been made since.
TesterTrainStep ==
    /\ TrainStepCall
    /\ tester' = None
    /\ UNCHANGED <<feed, naming, experiment, listing, selection, confusion,
                   cli, registry>>

TesterRecord(op, data_type, r) ==
    [op |-> op, data_type |-> data_type, raised |-> r.raised,
     batches |-> r.batches, feed_dict |-> r.feed_dict, before |-> Cur, after |-> r.t]

TestModel ==
    /\ \E data_type \in DataTypes, data_len \in 0..MaxDataLen,
          batch_size \in 1..MaxBatchSize :
         \E faultAt \in 0..get_numits(data_len, batch_size) :
           LET r == test_model(Cur, data_type, data_len, batch_size, faultAt)
           IN  /\ Install(r.t)
               /\ tester' = TesterRecord("test_model", data_type, r)
    /\ UNCHANGED <<save_step, max_to_keep, latest_step_json, lastCall, hist>>
    /\ UNCHANGED <<feed, naming, experiment, listing, selection, confusion,
                   cli, registry>>

\* One validation pass of the orchestrator, outside a training iteration.
ValLogs ==
    /\ LET r == val_logs(Cur, 0)
       IN  /\ Install(r.t)
           /\ tester' = TesterRecord("val_logs", "val",
                                     TestOutcome(r.t, r.raised, 1,
                                                 TesterFeed(Some(FALSE), None)))
    /\ UNCHANGED <<save_step, max_to_keep, latest_step_json, lastCall, hist>>
    /\ UNCHANGED <<feed, naming, experiment, listing, selection, confusion,
                   cli, registry>>

NextTester == TesterTrainStep \/ TestModel \/ ValLogs

SpecTester == InitTester /\ [][NextTester]_vars

\* C21: test_model with a split name other than train, val and test raises
\* the invalid-argument error with no batch evaluated; with one of the three
\* names it does not raise that error.
C21_UnknownSplitRejected ==
    (tester # None /\ tester.op = "test_model") =>
        IF tester.data_type \in {"train", "val", "test"}
        THEN tester.raised # "ValueError"
        ELSE tester.raised = "ValueError" /\ tester.batches = 0

\* an unrecognised name was rejected after training, and (separately) a
\* recognised one was evaluated
C21_Witness ==
    /\ tester # None /\ tester.op = "test_model"
    /\ tester.data_type = "validation" /\ tester.raised = "ValueError"
    /\ num_steps > 0

C21_WitnessRecognised ==
    /\ tester # None /\ tester.op = "test_model"
    /\ tester.data_type = "test" /\ tester.raised = "" /\ tester.batches = 2

\* C28: a validation pass and a test_model call leave the trainer's
\* num_steps, the parameters and the checkpoints on disk as they were: no
\* update is applied and nothing is saved.
C28_EvaluationLeavesTrainerAlone ==
    tester # None =>
        /\ tester.after.num_steps = tester.before.num_steps
        /\ tester.after.params = tester.before.params
        /\ tester.after.num_updates = tester.before.num_updates
        /\ tester.after.ckpt_files = tester.before.ckpt_files
        /\ tester.after.last_checkpoints = tester.before.last_checkpoints
        /\ tester.after = Cur

\* batches were evaluated on a trainer that has trained and saved
C28_Witness ==
    /\ tester # None /\ tester.op = "test_model" /\ tester.batches >= 1
    /\ tester.before.num_steps >= 1 /\ DOMAIN tester.before.ckpt_files # {}

C28_WitnessValidation ==
    /\ tester # None /\ tester.op = "val_logs"
    /\ tester.before.num_steps >= 1 /\ DOMAIN tester.before.ckpt_files # {}

\* ------------------------------------------------- the store_outputs command
\* store_outputs.py run as a program, in a process of its own: a new trainer
\* (no step taken, initial parameters) over the checkpoints an earlier run
\* left in the run's checkpoint directory.

\* attributes of the evaluator object
EvaluatorAttrs == {"accuracy", "dice", "precision", "recall"}

\* eval_metric as given on the command line: a metric of the tester, an
\* evaluator attribute the tester does not compute, and two names that are
\* no attribute of the evaluator
CliMetrics == {"dice", "precision", "f1", ""}

\* output_file as given on the command line
CliOutputFiles == {"outputs", "val_input_output"}

hasattr_evaluator_any(eval_metric) == TRUE

\* hasattr(experiment.evaluator, eval_metric)
hasattr_evaluator(eval_metric) == eval_metric \in EvaluatorAttrs

\* A stage the run went through: the experiment constructed, a checkpoint
\* restored, the model evaluated, the best checkpoint selected, the report
\* printed, the outputs exported to a file.
Stage(stage, step, file) == [stage |-> stage, step |-> step, file |-> file]

NoFile == [under |-> "", stem |-> "", step |-> 0, ext |-> ""]

\* Outcome of a part of the run: trainer state, exception, value, stages.
CliOutcome(t, raised, ret, stages) ==
    [t |-> t, raised |-> raised, ret |-> ret, stages |-> stages]

\* evaluate_model(dataset_type, step_num): _init_session(sess,
\* continue_old=True, step_num=step_num), then network_tester.test_model.
\* means gives the mean the evaluation of each checkpoint yields.
evaluate_model(t, dataset_type, step_num, means) ==
    With(load_state([t EXCEPT !.params = <<>>], Some(step_num)),
         LAMBDA l :
           IF l.raised # "" THEN CliOutcome(l.t, l.raised, None, <<>>)
           ELSE With(test_model(l.t, dataset_type, 1, 1, 0),
                     LAMBDA r :
                       LET restored == <<Stage("restore", step_num, NoFile)>>
                       IN  IF r.raised # ""
                           THEN CliOutcome(r.t, r.raised, None, restored)
                           ELSE CliOutcome(r.t, "",
                                    [it |-> step_num, mean |-> means[step_num],
                                     std |-> 0],
                                    restored \o <<Stage("evaluate", step_num, NoFile)>>)))

\* evaluate_all_checkpointed_models: the dict comprehension over the listed
\* iterations, in their order.
RECURSIVE evaluate_all(_, _, _, _)
evaluate_all(acc, its, dataset_type, means) ==
    IF its = <<>> \/ acc.raised # "" THEN acc
    ELSE With(evaluate_model(acc.t, dataset_type, Head(its), means),
              LAMBDA r :
                With(CliOutcome(r.t, r.raised,
                                IF r.raised = "" THEN Append(acc.ret, r.ret)
                                ELSE acc.ret,
                                acc.stages \o r.stages),
                     LAMBDA next :
                       evaluate_all(next, Tail(its), dataset_type, means)))

\* find_best_model(dataset_type, performance_metric): returns the 3-tuple
\* best_it, performance, std.
find_best_model(t, dataset_type, performance_metric, order, means) ==
    LET listed == get_all_checkpoint_its(<<"l", "/", "n", "/", "c">>, order)
    IN  IF listed.raised # "" THEN CliOutcome(t, listed.raised, None, <<>>)
        ELSE With(evaluate_all(CliOutcome(t, "", <<>>, <<>>), listed.value,
                               dataset_type, means),
                  LAMBDA all :
                    IF all.raised # "" THEN all
                    ELSE IF all.ret # <<>> /\ performance_metric \notin
                                 {TesterMetrics[k] : k \in 1..Len(TesterMetrics)}
                    THEN CliOutcome(all.t, "KeyError", None, all.stages)
                    ELSE IF all.ret = <<>>
                    THEN CliOutcome(all.t, "IndexError", None, all.stages)
                    ELSE With(find_best_checkpoint(all.ret),
                              LAMBDA best :
                                CliOutcome(all.t, "", <<best.it, best.mean, best.std>>,
                                    all.stages \o <<Stage("select", best.it, NoFile)>>)))

\* save_outputs(dataset_type, filename, step_num): the file is
\* log_dir / name / f"{filename}_{step_num}.h5".
save_outputs(t, dataset_type, filename, step_num) ==
    LET fresh == [t EXCEPT !.params = <<>>]
        l == load_state(fresh, Some(step_num))
        file == [under |-> "log_dir/name", stem |-> filename, step |-> step_num,
                 ext |-> "h5"]
    IN  IF l.raised # "" THEN CliOutcome(l.t, l.raised, None, <<>>)
        ELSE CliOutcome(l.t, "", None,
                        <<Stage("restore", step_num, NoFile),
                          Stage("export", step_num, file)>>)

\* The statements of the program after the experiment is found to have the
\* metric: the values selected, of which targets receives as many as the
\* assignment  best_it, (result, result_std) = ...  has targets.
report_and_export(t, selected, targets, stages) ==
    IF Len(selected) # targets
    THEN CliOutcome(t, "ValueError", None, stages)
    ELSE LET best_it == selected[1]
             printed == stages \o <<Stage("print", best_it, NoFile)>>
         IN  With(evaluate_model(t, "val", best_it, [s \in {best_it} |-> NaN]),
                  LAMBDA e :
                    IF e.raised # ""
                    THEN CliOutcome(e.t, e.raised, None, printed \o e.stages)
                    ELSE With(save_outputs(e.t, "val", "val_input_output", best_it),
                              LAMBDA s :
                                CliOutcome(s.t, s.raised, None,
                                    printed \o e.stages
                                            \o <<Stage("reevaluate", best_it, NoFile)>>
                                            \o s.stages)))

\* store_outputs.py, __main__
store_outputs_main(t, eval_metric, output_file, order, means) ==
    LET constructed == <<Stage("construct", 0, NoFile)>>
    IN  IF ~hasattr_evaluator(eval_metric)
        THEN CliOutcome(t, "ValueError", None, constructed)
        ELSE With(find_best_model(t, "val", eval_metric, order, means),
                  LAMBDA f :
                    IF f.raised # ""
                    THEN CliOutcome(f.t, f.raised, None, constructed \o f.stages)
                    ELSE report_and_export(f.t, f.ret, 2, constructed \o f.stages))

\* The lineage of parameters a checkpoint of step S holds.
ParamsAt(S) == [k \in 1..S |-> k]

InitCli ==
    /\ save_step = None /\ max_to_keep = 1
    /\ num_steps = 0 /\ params = <<>> /\ num_updates = 0
    /\ \E steps \in SUBSET (0..MaxCkptStep) :
         /\ ckpt_files = [S \in steps |-> ParamsAt(S)]
         /\ log_dir_exists = (steps # {})
    /\ last_checkpoints = <<>>
    /\ latest_step_json = None
    /\ lastCall = [op |-> "init", arg |-> None, raised |-> "", ret |-> None,
                   trace |-> <<>>, pre |-> Cur]
    /\ hist = [restored |-> 0, completed |-> 0, applied |-> 0, save_log |-> <<>>,
               loads |-> 0, only_train |-> TRUE]
    /\ feed = None /\ naming = None /\ experiment = None /\ listing = None
    /\ selection = None /\ confusion = None /\ tester = None /\ registry = None
    /\ cli = None

\* One run of the program.
StoreOutputs ==
    /\ cli = None
    /\ \E eval_metric \in CliMetrics, output_file \in CliOutputFiles,
          means \in [DOMAIN ckpt_files -> Floats] :
         \E order \in Orders({IndexFile(S) : S \in DOMAIN ckpt_files}) :
           \E r \in {store_outputs_main(Cur, eval_metric, output_file, order, means)} :
             /\ Install(r.t)
             /\ cli' = [eval_metric |-> eval_metric, output_file |-> output_file,
                        on_disk |-> DOMAIN ckpt_files, means |-> means,
                        raised |-> r.raised, stages |-> r.stages]
    /\ UNCHANGED <<save_step, max_to_keep, latest_step_json, lastCall, hist>>
    /\ UNCHANGED <<feed, naming, experiment, listing, selection, confusion,
                   tester, registry>>

NextCli == StoreOutputs

SpecCli == InitCli /\ [][NextCli]_vars

StagesOf(kinds) ==
    {i \in 1..Len(cli.stages) : cli.stages[i].stage \in kinds}

\* C22: with an eval_metric that is no attribute of the evaluator the program
\* raises, having restored and evaluated no checkpoint and written no
\* output file.
C22_UnknownMetricRejectedEarly ==
    (cli # None /\ cli.eval_metric \notin EvaluatorAttrs) =>
        /\ cli.raised # ""
        /\ StagesOf({"restore", "evaluate", "reevaluate", "export"}) = {}

\* an unknown metric was rejected with checkpoints on disk
C22_Witness ==
    /\ cli # None /\ cli.eval_metric = "f1" /\ cli.raised = "ValueError"
    /\ cli.on_disk # {}

\* C23: with a recognised eval_metric and a checkpoint on disk the stages
\* are select, print, re-evaluate, export, in this order; re-evaluation and
\* export use the selected step; the export goes to
\* <output_file>_<step>.h5 under log_dir/run_name.
C23_StagesInOrder ==
    (cli # None /\ cli.eval_metric \in EvaluatorAttrs /\ cli.on_disk # {}) =>
        \E a, b, c, d \in 1..Len(cli.stages) :
           /\ a < b /\ b < c /\ c < d
           /\ StagesOf({"select"}) = {a} /\ StagesOf({"print"}) = {b}
           /\ StagesOf({"reevaluate"}) = {c} /\ StagesOf({"export"}) = {d}
           /\ cli.stages[c].step = cli.stages[a].step
           /\ cli.stages[d].step = cli.stages[a].step
           /\ cli.stages[d].file = [under |-> "log_dir/name",
                                    stem |-> cli.output_file,
                                    step |-> cli.stages[a].step, ext |-> "h5"]

\* What the program does with a metric the tester computes: the checkpoints
\* on disk are restored and evaluated, one is selected, and the program
\* stops with ValueError.
CliStopsAfterSelection ==
    (cli # None /\ cli.eval_metric = "dice" /\ cli.on_disk # {}) =>
        /\ cli.raised = "ValueError"
        /\ StagesOf({"select"}) # {}
        /\ StagesOf({"print", "reevaluate", "export"}) = {}

\* ------------------------------------------------- two runs, one log directory
\* Two fresh orchestrators configured with one log_dir and one base name.
\* The trainer variables are those of the first, whose checkpoint directory
\* is log_dir/<its run name>/checkpoints.

BaseName == <<"e">>

\* Directories the logging sinks make under log_dir for the run called name,
\* when they are constructed and when their writers are opened.  The
\* persisted layout names log_dir/run_name/checkpoints only: none.
sink_dirs(name) == {}

\* The directories of log_dir once the trainer of the run called name is in
\* state t: save_state makes log_dir/name/checkpoints with its parents.
run_dirs(dirs, name, t) ==
    dirs \cup sink_dirs(name) \cup (IF t.log_dir_exists THEN {name} ELSE {})

\* _get_name of a fresh run over the directories dirs
fresh_name(dirs) ==
    get_name([dirs |-> dirs, files |-> {}, name |-> BaseName,
              continue_old |-> FALSE]).name

InitRegistry ==
    /\ TrainerInit
    /\ feed = None /\ naming = None /\ experiment = None /\ listing = None
    /\ selection = None /\ confusion = None /\ tester = None /\ cli = None
    /\ \E dirs \in SUBSET {Suffixed(BaseName, 0), Suffixed(BaseName, 1)} :
         registry = [dirs |-> dirs, first |-> None, second |-> None]

\* NetworkExperiment.__init__ of the first orchestrator
ConstructFirst ==
    /\ registry.first = None
    /\ \E name \in {fresh_name(registry.dirs)} :
         registry' = [registry EXCEPT !.first = Some(name),
                                      !.dirs = run_dirs(@, name, Cur)]
    /\ UNCHANGED <<trainer_vars, feed, naming, experiment, listing, selection,
                   confusion, tester, cli>>

\* The first orchestrator trains one step.
FirstTrainStep ==
    /\ registry.first # None /\ registry.second = None
    /\ TrainStepCall
    /\ registry' = [registry EXCEPT
                      !.dirs = IF log_dir_exists' THEN @ \cup {registry.first[1]}
                               ELSE @]
    /\ UNCHANGED <<feed, naming, experiment, listing, selection, confusion,
                   tester, cli>>

\* NetworkExperiment.__init__ of the second orchestrator
ConstructSecond ==
    /\ registry.first # None /\ registry.second = None
    /\ registry' = [registry EXCEPT !.second = Some(fresh_name(registry.dirs))]
    /\ UNCHANGED <<trainer_vars, feed, naming, experiment, listing, selection,
                   confusion, tester, cli>>

NextRegistry == ConstructFirst \/ FirstTrainStep \/ ConstructSecond

SpecRegistry == InitRegistry /\ [][NextRegistry]_vars

\* C29: two fresh orchestrators over one log_dir and one base name, their
\* names resolved one after the other, get different run names whatever
\* the first has done before the second resolves its name.
C29_RunNamesDiffer ==
    (registry # None /\ registry.second # None) =>
        registry.second # registry.first

\* What holds: the names differ once the first run has saved a checkpoint.
NamesDifferAfterSave ==
    (registry # None /\ registry.second # None /\ log_dir_exists) =>
        registry.second # registry.first

\* The first run trained without saving and the second took its name.
NameTakenTwice ==
    /\ registry # None /\ registry.second # None
    /\ registry.second = registry.first /\ num_steps >= 1
====
